---- MODULE Spec2Model ----
(***************************************************************************)
(* Model of pam_rc2022 (src/src/lib.rs): a PAM module whose session-open   *)
(* hook reads PAM_USER and PAM_RHOST from the handle and posts             *)
(* "<user> logging in from <rhost>" to a Discord webhook through curl.     *)
(*                                                                         *)
(* Text is a sequence of Unicode code points, a C string a sequence of     *)
(* non-zero bytes.  Every operator that models a fallible function yields  *)
(* a record [res, calls]: the PamResult it returns and the foreign calls   *)
(* (libpam, curl) it made, in order.                                       *)
(***************************************************************************)
EXTENDS Integers, Sequences, FiniteSets

VARIABLES pamh, op, input, ret, result, calls

vars == <<pamh, op, input, ret, result, calls>>

-----------------------------------------------------------------------------
(* PamResultCode, src/src/lib.rs:19-52 *)
PAM_SUCCESS == 0
PAM_SYSTEM_ERR == 4
PAM_BUF_ERR == 5
PAM_CONV_ERR == 19
PAM_IGNORE == 25
PAM_BAD_ITEM == 29
PAM_INCOMPLETE == 31

PamResultCode == PAM_SUCCESS..PAM_INCOMPLETE

(* MessageStyle and PamItemType *)
PAM_TEXT_INFO == 4
PAM_USER == 2
PAM_RHOST == 4

PAM_SILENT == 32768
PamFlags == {0, PAM_SILENT}

-----------------------------------------------------------------------------
(* Bounds *)
MaxLen == 1
MaxMsgLen == 3

(* Bytes a host C string is built from: ASCII 'a', the lead byte 0xC3 and  *)
(* the continuation byte 0xA9 (together U+00E9; each alone is invalid).    *)
Bytes == {97, 195, 169}

(* Code points info is called with directly: NUL and 'a'. *)
Chars == {0, 97}

(* Result codes the host's pam_get_item and pam_prompt answer with. *)
GetItemCodes == {PAM_SUCCESS, PAM_SYSTEM_ERR, PAM_BAD_ITEM}
PromptCodes == {PAM_SUCCESS, PAM_BUF_ERR, PAM_CONV_ERR, PAM_IGNORE}

(* Status codes the relay endpoint answers with. *)
StatusCodes == {0, 101, 199, 200, 204, 299, 300, 301, 404, 500, 503}

RECURSIVE SeqsUpTo(_, _)
SeqsUpTo(S, n) ==
    IF n = 0 THEN {<<>>}
    ELSE LET shorter == SeqsUpTo(S, n - 1)
         IN  shorter \cup {Append(s, x) : s \in shorter, x \in S}

-----------------------------------------------------------------------------
(* PamResult<T>: Ok(v) or Err(code).  NoCode fills err of an Ok. *)
(* NoReturn: nothing was returned to the host.  Aborted: a panic ended the  *)
(* call (an unwrap on a failed curl list or form).                         *)
NoCode == 0 - 1
NoReturn == 0 - 2
Aborted == 0 - 3

Ok(v) == [ok |-> TRUE, val |-> v, err |-> NoCode]
Err(e) == [ok |-> FALSE, val |-> <<>>, err |-> e]
Panic == [ok |-> FALSE, val |-> <<>>, err |-> Aborted]
NoResult == [ok |-> FALSE, val |-> <<>>, err |-> NoReturn]

(* One foreign call: the function, its item type or message style, the    *)
(* text handed over, and the code (or status) it answered with.           *)
Call(f, a, t, r) == [fn |-> f, arg |-> a, text |-> t, r |-> r]

Return(r, c) == [res |-> r, calls |-> c]

-----------------------------------------------------------------------------
(* Text *)

(* CString::new fails on a text with an interior NUL. *)
HasNul(text) == \E i \in 1..Len(text) : text[i] = 0

REPLACEMENT_CHARACTER == 65533

(* CStr::to_string_lossy: UTF-8 decoding in which every byte that starts   *)
(* no valid sequence becomes U+FFFD.  Exact for bytes below 0xE0: ASCII,   *)
(* continuation bytes and the leads of two-byte sequences.                 *)
RECURSIVE to_string_lossy(_)
to_string_lossy(bytes) ==
    IF bytes = <<>> THEN <<>>
    ELSE LET b == Head(bytes)
             rest == Tail(bytes)
         IN  IF b < 128 THEN <<b>> \o to_string_lossy(rest)
             ELSE IF /\ b >= 194 /\ b <= 223
                     /\ rest # <<>> /\ Head(rest) >= 128 /\ Head(rest) <= 191
                  THEN <<(b - 192) * 64 + (Head(rest) - 128)>>
                           \o to_string_lossy(Tail(rest))
                  ELSE <<REPLACEMENT_CHARACTER>> \o to_string_lossy(rest)

(* Display of an unsigned integer: its decimal digits. *)
RECURSIVE Decimal(_)
Decimal(n) ==
    IF n < 10 THEN <<48 + n>>
    ELSE Decimal(n \div 10) \o <<48 + (n % 10)>>

(* " logging in from " *)
LoggingInFrom ==
    <<32, 108, 111, 103, 103, 105, 110, 103, 32, 105, 110, 32, 102, 114, 111,
      109, 32>>

(* "<unknown>" *)
Unknown == <<60, 117, 110, 107, 110, 111, 119, 110, 62>>

(* "can't perform discord webhook: " *)
CantPerform ==
    <<99, 97, 110, 39, 116, 32, 112, 101, 114, 102, 111, 114, 109, 32, 100,
      105, 115, 99, 111, 114, 100, 32, 119, 101, 98, 104, 111, 111, 107, 58,
      32>>

(* "can't send message to discord: got status code " *)
CantSend ==
    <<99, 97, 110, 39, 116, 32, 115, 101, 110, 100, 32, 109, 101, 115, 115,
      97, 103, 101, 32, 116, 111, 32, 100, 105, 115, 99, 111, 114, 100, 58,
      32, 103, 111, 116, 32, 115, 116, 97, 116, 117, 115, 32, 99, 111, 100,
      101, 32>>

(* Display of the curl error response_code fails with: "[48]" *)
Why == <<91, 52, 56, 93>>

-----------------------------------------------------------------------------
(* The host and the transport *)

(* What pam_get_item answers for an item: a result code and the item      *)
(* pointer, null or a C string.                                            *)
ItemAnswers ==
    [code : GetItemCodes, null : {TRUE}, bytes : {<<>>}]
        \cup [code : GetItemCodes, null : {FALSE}, bytes : SeqsUpTo(Bytes, MaxLen)]

pam_get_item(h, item_type) ==
    IF item_type = PAM_USER THEN h.user ELSE h.rhost

(* How the curl handle behaves in one relay call: the first step that      *)
(* fails ("none": the endpoint answered) and the status code it saw.       *)
CurlSteps ==
    {"url", "list_append", "http_headers", "form_add", "httppost", "perform",
     "response_code"}

CurlOutcomes ==
    [fail : CurlSteps, status : {0}] \cup [fail : {"none"}, status : StatusCodes]

-----------------------------------------------------------------------------
(* The module's functions *)

(* info without the check for an interior NUL: the C string ends there. *)
info_unchecked(msg, prompt_code) ==
    LET nul == CHOOSE i \in 1..(Len(msg) + 1) :
                   /\ i = Len(msg) + 1 \/ msg[i] = 0
                   /\ \A j \in 1..(i - 1) : msg[j] # 0
        result_code == prompt_code
    IN  Return(IF result_code = PAM_SUCCESS THEN Ok(<<>>) ELSE Err(result_code),
               <<Call("pam_prompt", PAM_TEXT_INFO, SubSeq(msg, 1, nul - 1), result_code)>>)

info(msg, prompt_code) ==
    IF HasNul(msg) THEN Return(Err(PAM_BUF_ERR), <<>>)
    ELSE LET result_code == prompt_code
         IN  Return(IF result_code = PAM_SUCCESS THEN Ok(<<>>) ELSE Err(result_code),
                    <<Call("pam_prompt", PAM_TEXT_INFO, msg, result_code)>>)

get_item(h, item_type) ==
    LET a == pam_get_item(h, item_type)
        r == a.code
    IN  Return(IF a.null THEN Err(r) ELSE Ok(a.bytes),
               <<Call("pam_get_item", item_type, <<>>, r)>>)

get_user(h) ==
    LET i == get_item(h, PAM_USER)
    IN  Return(IF i.res.ok THEN Ok(to_string_lossy(i.res.val)) ELSE i.res, i.calls)

(* get_rhost without the normalization of an empty value. *)
get_rhost_raw(h) ==
    LET i == get_item(h, PAM_RHOST)
    IN  Return(IF i.res.ok THEN Ok(to_string_lossy(i.res.val)) ELSE i.res, i.calls)

get_rhost(h) ==
    LET i == get_item(h, PAM_RHOST)
        decoded == to_string_lossy(i.res.val)
    IN  IF ~i.res.ok THEN Return(i.res, i.calls)
        ELSE IF decoded = <<>> THEN Return(Ok(Unknown), i.calls)
        ELSE Return(Ok(decoded), i.calls)

(* A transport failure mapped like the failures of the steps before it. *)
map_perform_err_system == PAM_SYSTEM_ERR

(* easy.perform().map_err(|_| ...) *)
map_perform_err == PAM_IGNORE

(* response_code_failed with the diagnostic's failure propagated by `?`. *)
response_code_failed_propagates(performed, prompt_code) ==
    LET i == info(CantPerform \o Why, prompt_code)
        c == performed \o <<Call("response_code", 0, <<>>, NoCode)>> \o i.calls
    IN  IF ~i.res.ok THEN Return(i.res, c) ELSE Return(Err(PAM_SYSTEM_ERR), c)

(* easy.response_code() failed: the diagnostic's own result is dropped. *)
response_code_failed(performed, prompt_code) ==
    LET i == info(CantPerform \o Why, prompt_code)
    IN  Return(Err(PAM_SYSTEM_ERR),
               performed \o <<Call("response_code", 0, <<>>, NoCode)>> \o i.calls)

(* check_status with the diagnostic's result dropped (let _ = info(..)). *)
check_status_drops_diagnostic(performed, response_code, prompt_code) ==
    LET asked == performed \o <<Call("response_code", 0, <<>>, response_code)>>
    IN  IF response_code \div 100 # 2
        THEN LET i == info(CantSend \o Decimal(response_code), prompt_code)
             IN  Return(Err(PAM_IGNORE), asked \o i.calls)
        ELSE Return(Ok(<<>>), asked)

(* check_status that takes every status from 200 up for a success. *)
check_status_from_200(performed, response_code, prompt_code) ==
    LET asked == performed \o <<Call("response_code", 0, <<>>, response_code)>>
    IN  IF response_code < 200
        THEN LET i == info(CantSend \o Decimal(response_code), prompt_code)
             IN  IF ~i.res.ok THEN Return(i.res, asked \o i.calls)
                 ELSE Return(Err(PAM_IGNORE), asked \o i.calls)
        ELSE Return(Ok(<<>>), asked)

(* The endpoint answered with response_code. *)
check_status(performed, response_code, prompt_code) ==
    LET asked == performed \o <<Call("response_code", 0, <<>>, response_code)>>
    IN  IF response_code \div 100 # 2
        THEN LET i == info(CantSend \o Decimal(response_code), prompt_code)
             IN  IF ~i.res.ok THEN Return(i.res, asked \o i.calls)
                 ELSE Return(Err(PAM_IGNORE), asked \o i.calls)
        ELSE Return(Ok(<<>>), asked)

discord_webhook(message, curl, prompt_code) ==
    LET performed == <<Call("perform", 0, message, 0)>>
    IN  CASE curl.fail = "url" -> Return(Err(PAM_SYSTEM_ERR), <<>>)
          [] curl.fail = "list_append" -> Return(Panic, <<>>)
          [] curl.fail = "http_headers" -> Return(Err(PAM_SYSTEM_ERR), <<>>)
          [] curl.fail = "form_add" -> Return(Panic, <<>>)
          [] curl.fail = "httppost" -> Return(Err(PAM_SYSTEM_ERR), <<>>)
          [] curl.fail = "perform" ->
               Return(Err(map_perform_err), <<Call("perform", 0, message, 1)>>)
          [] curl.fail = "response_code" -> response_code_failed(performed, prompt_code)
          [] OTHER -> check_status(performed, curl.status, prompt_code)

(* login_message that retrieves both items before it looks at either. *)
login_message_eager(h, curl, prompt_code) ==
    LET u == get_user(h)
        r == get_rhost(h)
        d == discord_webhook(u.res.val \o LoggingInFrom \o r.res.val, curl, prompt_code)
    IN  IF ~u.res.ok THEN Return(u.res, u.calls \o r.calls)
        ELSE IF ~r.res.ok THEN Return(r.res, u.calls \o r.calls)
        ELSE Return(d.res, u.calls \o r.calls \o d.calls)

login_message(h, curl, prompt_code) ==
    LET u == get_user(h)
        r == get_rhost(h)
        d == discord_webhook(u.res.val \o LoggingInFrom \o r.res.val, curl, prompt_code)
    IN  IF ~u.res.ok THEN Return(u.res, u.calls)
        ELSE IF ~r.res.ok THEN Return(r.res, u.calls \o r.calls)
        ELSE Return(d.res, u.calls \o r.calls \o d.calls)

-----------------------------------------------------------------------------
(* State: the host's handle, and what the last call into the module was,   *)
(* was given, returned and did.  The host calls into the module one call   *)
(* at a time: a call starts when the host is idle (op = "none"), and the   *)
(* host takes the result before it makes the next call.                    *)

Idle == op = "none"

Init ==
    /\ pamh \in [user : ItemAnswers, rhost : ItemAnswers]
    /\ op = "none"
    /\ input = [flags |-> 0, msg |-> <<>>]
    /\ ret = NoReturn
    /\ result = NoResult
    /\ calls = <<>>

Inert(name, flags) ==
    /\ Idle
    /\ op' = name
    /\ input' = [flags |-> flags, msg |-> <<>>]
    /\ ret' = PAM_IGNORE
    /\ result' = NoResult
    /\ calls' = <<>>
    /\ UNCHANGED pamh

pam_sm_acct_mgmt == \E flags \in PamFlags : Inert("pam_sm_acct_mgmt", flags)

pam_sm_authenticate == \E flags \in PamFlags : Inert("pam_sm_authenticate", flags)

pam_sm_chauthtok == \E flags \in PamFlags : Inert("pam_sm_chauthtok", flags)

pam_sm_close_session == \E flags \in PamFlags : Inert("pam_sm_close_session", flags)

(* pam_sm_setcred answering PAM_SUCCESS, as credential hooks often do. *)
pam_sm_setcred_success ==
    \E flags \in PamFlags :
        /\ Idle
        /\ op' = "pam_sm_setcred"
        /\ input' = [flags |-> flags, msg |-> <<>>]
        /\ ret' = PAM_SUCCESS
        /\ result' = NoResult
        /\ calls' = <<>>
        /\ UNCHANGED pamh

pam_sm_setcred == \E flags \in PamFlags : Inert("pam_sm_setcred", flags)

pam_sm_open_session ==
    \E flags \in PamFlags, curl \in CurlOutcomes, prompt_code \in PromptCodes :
        LET m == login_message(pamh, curl, prompt_code)
        IN  /\ Idle
            /\ op' = "pam_sm_open_session"
            /\ input' = [flags |-> flags, msg |-> <<>>]
            /\ ret' = IF m.res.ok THEN PAM_IGNORE ELSE m.res.err
            /\ result' = m.res
            /\ calls' = m.calls
            /\ UNCHANGED pamh

call_get_user ==
    LET u == get_user(pamh)
    IN  /\ Idle
        /\ op' = "get_user"
        /\ input' = [flags |-> 0, msg |-> <<>>]
        /\ ret' = NoReturn
        /\ result' = u.res
        /\ calls' = u.calls
        /\ UNCHANGED pamh

call_get_rhost ==
    LET r == get_rhost(pamh)
    IN  /\ Idle
        /\ op' = "get_rhost"
        /\ input' = [flags |-> 0, msg |-> <<>>]
        /\ ret' = NoReturn
        /\ result' = r.res
        /\ calls' = r.calls
        /\ UNCHANGED pamh

host_resume ==
    /\ ~Idle
    /\ op' = "none"
    /\ input' = [flags |-> 0, msg |-> <<>>]
    /\ ret' = NoReturn
    /\ result' = NoResult
    /\ calls' = <<>>
    /\ UNCHANGED pamh

Next ==
    \/ pam_sm_acct_mgmt
    \/ pam_sm_authenticate
    \/ pam_sm_chauthtok
    \/ pam_sm_close_session
    \/ pam_sm_open_session
    \/ pam_sm_setcred
    \/ call_get_user
    \/ call_get_rhost
    \/ host_resume

Spec == Init /\ [][Next]_vars

(* info called on its own, with any text. *)
InitInfo ==
    /\ pamh \in [user : {[code |-> PAM_SUCCESS, null |-> TRUE, bytes |-> <<>>]},
                 rhost : {[code |-> PAM_SUCCESS, null |-> TRUE, bytes |-> <<>>]}]
    /\ op = "none"
    /\ input = [flags |-> 0, msg |-> <<>>]
    /\ ret = NoReturn
    /\ result = NoResult
    /\ calls = <<>>

call_info ==
    \E msg \in SeqsUpTo(Chars, MaxMsgLen), prompt_code \in PamResultCode :
        LET i == info(msg, prompt_code)
        IN  /\ Idle
            /\ op' = "info"
            /\ input' = [flags |-> 0, msg |-> msg]
            /\ ret' = NoReturn
            /\ result' = i.res
            /\ calls' = i.calls
            /\ UNCHANGED pamh

NextInfo == call_info \/ host_resume

SpecInfo == InitInfo /\ [][NextInfo]_vars

-----------------------------------------------------------------------------
(* What the properties read off a state *)

InertHooks ==
    {"pam_sm_acct_mgmt", "pam_sm_authenticate", "pam_sm_chauthtok",
     "pam_sm_close_session", "pam_sm_setcred"}

EntryPoints == InertHooks \cup {"pam_sm_open_session"}

OpenSession == op = "pam_sm_open_session"

IsPrompt(c) == c.fn = "pam_prompt"
IsPerform(c) == c.fn = "perform"
IsResponseCode(c) == c.fn = "response_code"

Prompts == SelectSeq(calls, IsPrompt)
Performs == SelectSeq(calls, IsPerform)
ResponseCodes == SelectSeq(calls, IsResponseCode)

(* The request was performed and the transport failed. *)
TransportFailed == OpenSession /\ Len(Performs) = 1 /\ Performs[1].r # 0

(* The request was performed and no status code could be read. *)
StatusUnavailable ==
    OpenSession /\ Len(ResponseCodes) = 1 /\ ResponseCodes[1].r = NoCode

(* The endpoint answered with a status code. *)
StatusReceived ==
    OpenSession /\ Len(ResponseCodes) = 1 /\ ResponseCodes[1].r # NoCode

Status == ResponseCodes[1].r

Is2xx(s) == 200 <= s /\ s <= 299

(* The number a text of decimal digits denotes. *)
RECURSIVE ParseDecimal(_)
ParseDecimal(digits) ==
    IF digits = <<>> THEN 0
    ELSE ParseDecimal(SubSeq(digits, 1, Len(digits) - 1)) * 10
             + (digits[Len(digits)] - 48)

IsSubSeqAt(t, text, i) ==
    /\ i + Len(t) - 1 <= Len(text)
    /\ SubSeq(text, i, i + Len(t) - 1) = t

Contains(text, t) == \E i \in 1..(Len(text) + 1) : IsSubSeqAt(t, text, i)

(* UTF-8 encoding of a text, and whether a byte string is valid UTF-8     *)
(* (for bytes below 0xE0).                                                 *)
RECURSIVE Utf8Encode(_)
Utf8Encode(text) ==
    IF text = <<>> THEN <<>>
    ELSE LET c == Head(text)
         IN  (IF c < 128 THEN <<c>>
              ELSE IF c < 2048 THEN <<192 + (c \div 64), 128 + (c % 64)>>
              ELSE <<224 + (c \div 4096), 128 + ((c \div 64) % 64), 128 + (c % 64)>>)
                 \o Utf8Encode(Tail(text))

RECURSIVE ValidUtf8(_)
ValidUtf8(bytes) ==
    IF bytes = <<>> THEN TRUE
    ELSE IF Head(bytes) < 128 THEN ValidUtf8(Tail(bytes))
    ELSE /\ Head(bytes) >= 194 /\ Head(bytes) <= 223
         /\ Len(bytes) >= 2 /\ bytes[2] >= 128 /\ bytes[2] <= 191
         /\ ValidUtf8(Tail(Tail(bytes)))

(* The message handed to the relay: the retrieved user, the literal and   *)
(* the normalized remote host, which is not empty.                         *)
MessageComposed ==
    OpenSession /\ Len(Performs) = 1 =>
        LET r == IF pamh.rhost.bytes = <<>> THEN Unknown
                 ELSE to_string_lossy(pamh.rhost.bytes)
        IN  /\ r # <<>>
            /\ Performs[1].text =
                   to_string_lossy(pamh.user.bytes) \o LoggingInFrom \o r

-----------------------------------------------------------------------------
(* C1: whatever the host and the relay endpoint do, no entry point         *)
(* returns PAM_SUCCESS to the host.                                        *)
C1_NeverSuccess == op \in EntryPoints => ret # PAM_SUCCESS

(* C2: when the host hands back a null item, get_user and get_rhost fail   *)
(* with the host's code if it is not PAM_SUCCESS and with some other,      *)
(* non-success condition if it is: a failed retrieval never carries        *)
(* PAM_SUCCESS as its error.                                               *)
C2_NullItemFails ==
    /\ op = "get_user" /\ pamh.user.null =>
           /\ ~result.ok
           /\ result.err # PAM_SUCCESS
           /\ pamh.user.code # PAM_SUCCESS => result.err = pamh.user.code
    /\ op = "get_rhost" /\ pamh.rhost.null =>
           /\ ~result.ok
           /\ result.err # PAM_SUCCESS
           /\ pamh.rhost.code # PAM_SUCCESS => result.err = pamh.rhost.code

(* C3 as claimed: when no status code can be read, one diagnostic is       *)
(* emitted; session-open returns the diagnostic's failure code if it       *)
(* failed and PAM_SYSTEM_ERR otherwise.                                    *)
C3_DiagnosticFailurePropagated ==
    StatusUnavailable =>
        /\ Len(Prompts) = 1
        /\ ret = IF Prompts[1].r = PAM_SUCCESS THEN PAM_SYSTEM_ERR ELSE Prompts[1].r

(* C3 as amended: when no status code can be read, one diagnostic is       *)
(* emitted and session-open returns PAM_SYSTEM_ERR whether the diagnostic  *)
(* succeeded or failed.                                                    *)
C3_SystemErr ==
    StatusUnavailable =>
        /\ Len(Prompts) = 1
        /\ IsSubSeqAt(CantPerform, Prompts[1].text, 1)
        /\ ret = PAM_SYSTEM_ERR
        /\ ~result.ok /\ result.err = PAM_SYSTEM_ERR

C3_Witness ==
    /\ StatusUnavailable
    /\ Len(Prompts) = 1
    /\ Prompts[1].r = PAM_CONV_ERR
    /\ ret = PAM_SYSTEM_ERR

(* C4: on a status code outside 200..299 exactly one diagnostic is         *)
(* attempted, its text ends in the decimal status code; session-open       *)
(* returns PAM_IGNORE if the diagnostic succeeded and the diagnostic's     *)
(* failure code if it failed.                                              *)
C4_RemoteRejection ==
    StatusReceived /\ ~Is2xx(Status) =>
        /\ Len(Prompts) = 1
        /\ Prompts[1].arg = PAM_TEXT_INFO
        /\ IsSubSeqAt(CantSend, Prompts[1].text, 1)
        /\ Len(Prompts[1].text) > Len(CantSend)
        /\ ParseDecimal(SubSeq(Prompts[1].text, Len(CantSend) + 1,
                               Len(Prompts[1].text))) = Status
        /\ Status = 503 => Contains(Prompts[1].text, <<53, 48, 51>>)
        /\ ret = IF Prompts[1].r = PAM_SUCCESS THEN PAM_IGNORE ELSE Prompts[1].r
        /\ ~result.ok /\ result.err = ret

C4_Witness ==
    /\ StatusReceived /\ Status = 503
    /\ Len(Prompts) = 1
    /\ Contains(Prompts[1].text, <<53, 48, 51>>)
    /\ Prompts[1].r = PAM_CONV_ERR
    /\ ret = PAM_CONV_ERR

(* C5: when performing the request fails, session-open returns             *)
(* PAM_IGNORE, no diagnostic is emitted, the status code is never asked    *)
(* for and the request is made once.                                       *)
C5_TransportFailure ==
    TransportFailed =>
        /\ ret = PAM_IGNORE
        /\ ~result.ok /\ result.err = PAM_IGNORE
        /\ Len(Prompts) = 0
        /\ Len(ResponseCodes) = 0
        /\ Len(Performs) = 1

C5_Witness == TransportFailed /\ ret = PAM_IGNORE /\ Len(calls) = 3

(* C6: session-open calls out in the order user, remote host, request,     *)
(* status, diagnostic, each at most once; a failed user retrieval returns  *)
(* its code after that one call, a failed remote-host retrieval returns    *)
(* its code with no request made.                                          *)
Rank(c) ==
    CASE c.fn = "pam_get_item" /\ c.arg = PAM_USER -> 1
      [] c.fn = "pam_get_item" /\ c.arg = PAM_RHOST -> 2
      [] c.fn = "perform" -> 3
      [] c.fn = "response_code" -> 4
      [] c.fn = "pam_prompt" -> 5
      [] OTHER -> 0

C6_Sequential ==
    OpenSession =>
        /\ Len(calls) >= 1 /\ Rank(calls[1]) = 1
        /\ \A i \in 1..(Len(calls) - 1) : Rank(calls[i]) < Rank(calls[i + 1])
        /\ Len(calls) >= 2 => Rank(calls[2]) = 2
        /\ Len(Performs) <= 1 /\ Len(Prompts) <= 1
        /\ Len(ResponseCodes) = 1 => Len(Performs) = 1
        /\ Len(Prompts) = 1 => Len(ResponseCodes) = 1
        /\ pamh.user.null => ret = pamh.user.code /\ Len(calls) = 1
        /\ ~pamh.user.null /\ pamh.rhost.null =>
               ret = pamh.rhost.code /\ Len(calls) = 2 /\ Len(Performs) = 0
        /\ Len(Performs) = 1 => Contains(Performs[1].text, LoggingInFrom)

C6_Witness ==
    /\ OpenSession
    /\ ~pamh.user.null /\ pamh.rhost.null /\ pamh.rhost.code = PAM_BAD_ITEM
    /\ ret = PAM_BAD_ITEM
    /\ Len(calls) = 2

(* C7: the relay succeeds exactly when the status code is in 200..299; on  *)
(* such a success session-open returns PAM_IGNORE and emits no             *)
(* diagnostic.                                                             *)
C7_StatusClassification ==
    StatusReceived =>
        /\ result.ok <=> Is2xx(Status)
        /\ result.ok <=> Status \in {200, 204, 299}
        /\ Status \in {101, 301, 404, 500} => ~result.ok
        /\ result.ok => ret = PAM_IGNORE /\ Len(Prompts) = 0

C7_Witness ==
    /\ StatusReceived /\ Status = 299
    /\ result.ok /\ ret = PAM_IGNORE /\ Len(Prompts) = 0

C9_InertHooks == op \in InertHooks => ret = PAM_IGNORE /\ calls = <<>>

C9_Witness ==
    /\ op = "pam_sm_setcred" /\ input.flags = PAM_SILENT
    /\ ~pamh.user.null /\ ~pamh.rhost.null
    /\ ret = PAM_IGNORE /\ calls = <<>>

(* C10: info fails with PAM_BUF_ERR and never calls pam_prompt on a text   *)
(* with an embedded NUL; on any other text it calls pam_prompt once with   *)
(* that text, succeeds exactly when the host answers PAM_SUCCESS and       *)
(* fails with the host's code otherwise.                                   *)
C10_Info ==
    op = "info" =>
        IF \E i \in 1..Len(input.msg) : input.msg[i] = 0
        THEN ~result.ok /\ result.err = PAM_BUF_ERR /\ calls = <<>>
        ELSE /\ Len(calls) = 1
             /\ calls[1].fn = "pam_prompt"
             /\ calls[1].arg = PAM_TEXT_INFO
             /\ calls[1].text = input.msg
             /\ result.ok <=> calls[1].r = PAM_SUCCESS
             /\ ~result.ok => result.err = calls[1].r

C10_Witness ==
    /\ op = "info"
    /\ input.msg = <<97, 0, 97>>
    /\ result.err = PAM_BUF_ERR /\ calls = <<>>

====
